---------------------------- MODULE Spec2Model ----------------------------
(***************************************************************************)
(* The HFP mSBC decoder wrapper of system/stack/btm/hfp_msbc_decoder.cc:   *)
(* one static decoder (context, scratch memory, output buffer) and three   *)
(* entry points, init, cleanup and decode_packet, around the sub-band      *)
(* codec engine (OI_CODEC_SBC), whose code lives in embdrv/sbc/decoder.    *)
(* The engine is modelled as a deterministic function of the context and   *)
(* of the bytes it is handed; what it reports for a given input buffer is  *)
(* carried by the input itself, so that the inputs range over every report *)
(* the engine can make.                                                    *)
(***************************************************************************)
EXTENDS Integers, Sequences, FiniteSets

VARIABLES
    hfp_msbc_decoder,   \* the static tHFP_MSBC_DECODER
    o_buf,              \* the caller's output view variable (*o_buf)
    viewSnap,           \* what the view read when it was last returned
    lastOp,             \* the entry point called last
    lastResult,         \* what the last call returned
    calls,              \* the engine calls the last call made, in order
    lastFrame,          \* the input of the last call, a decode_packet
    lastLen,            \* the bytes the caller's buffer held in that call
    lifecycle,          \* "Uninitialized" or "Ready"
    failedBefore,       \* the call before the last was a decode that failed
    trail               \* progress through cleanup; init (ok); decode

vars == <<hfp_msbc_decoder, o_buf, viewSnap, lastOp, lastResult,
          calls, lastFrame, lastLen, lifecycle, failedBefore, trail>>

-----------------------------------------------------------------------------
(* Bounds and program constants *)

MaxPay == 1

HistMod == MaxPay + 1

HFP_MSBC_PKT_LEN == 60

DecodeBufSamples == 120

SizeofDecodeBuf == DecodeBufSamples * 2

FullFrameBytes == 240

-----------------------------------------------------------------------------
(* The engine, embdrv/sbc/decoder *)

Statuses == {"OI_OK", "OI_FAIL"}

OI_SUCCESS(status) == status = "OI_OK"

Modes == {"zero", "sbc", "msbc"}

ZeroContext == [mode |-> "zero", hist |-> 0]

ZeroBuf == [n |-> 0, v |-> 0]

\* What an input buffer is to the engine: the status, the input bytes left
\* and the output bytes written that decoding it reports, and its payload.
Frames ==
    [status : Statuses, rem : {0, 1}, wr : {0, 238, 240}, pay : 1 .. MaxPay]

\* The number of bytes the caller's buffer may really hold.
BufLens == {59, 60}

\* reset(context, scratch, size, 1, 1, false): an accepted reset gives a
\* freshly reset context; what becomes of filter history accumulated before
\* it is not defined (keep); a rejected reset changes nothing.
OI_CODEC_SBC_DecoderReset(ctx, status, keep) ==
    IF OI_SUCCESS(status)
    THEN [mode |-> "sbc", hist |-> IF keep THEN ctx.hist ELSE 0]
    ELSE ctx

\* configure_for_msbc(context)
OI_CODEC_SBC_DecoderConfigureMSbc(ctx, status) ==
    IF OI_SUCCESS(status) THEN [ctx EXCEPT !.mode = "msbc"] ELSE ctx

\* The PCM block synthesised from the filter history and a payload.
Synth(hist, pay) == 1 + ((hist + pay) % HistMod)

\* decode_frame(context, input, input_len, output, output_len): one frame.
\* The filter history moves on every call, success or failure; the samples
\* written depend on the history; the scratch memory is reached through the
\* context, so a zeroed context reaches none.
OI_CODEC_SBC_DecodeFrame(d, frame, in_len, out_cap) ==
    LET ctx == d.decoder_context
        wr  == IF frame.wr <= out_cap THEN frame.wr ELSE out_cap
    IN  [status    |-> frame.status,
         oi_size   |-> frame.rem,
         out_avail |-> wr,
         dec |-> [decoder_context |->
                      [ctx EXCEPT !.hist = (ctx.hist + frame.pay) % HistMod],
                  context_data |->
                      IF ctx.mode = "zero" THEN d.context_data ELSE 1,
                  decode_buf |->
                      IF wr = 0 THEN d.decode_buf
                      ELSE [n |-> wr, v |-> Synth(ctx.hist, frame.pay)]]]

-----------------------------------------------------------------------------
(* The wrapper, hfp_msbc_decoder.cc *)

ZeroDecoder ==
    [decoder_context |-> ZeroContext, context_data |-> 0, decode_buf |-> ZeroBuf]

\* line 60: memset(&hfp_msbc_decoder, 0, sizeof(hfp_msbc_decoder))
Cleanup_KeepsBuf(d) ==
    [ZeroDecoder EXCEPT !.decode_buf = d.decode_buf]

Cleanup_KeepsContext(d) ==
    [ZeroDecoder EXCEPT !.decoder_context = d.decoder_context]

Memset0(d) == ZeroDecoder

\* lines 39-57: reset, then configure for mSBC when the reset succeeded.
InitOutcome_AlwaysConfigures(d, rs, cs, keep) ==
    LET c1 == OI_CODEC_SBC_DecoderReset(d.decoder_context, rs, keep)
        c2 == OI_CODEC_SBC_DecoderConfigureMSbc(c1, cs)
    IN  [ret   |-> OI_SUCCESS(rs) /\ OI_SUCCESS(cs),
         dec   |-> [d EXCEPT !.decoder_context = c2],
         calls |-> << [fn |-> "DecoderReset", status |-> rs],
                      [fn |-> "DecoderConfigureMSbc", status |-> cs] >>]

InitOutcome_ClearsBuf(d, rs, cs, keep) ==
    LET c1 == OI_CODEC_SBC_DecoderReset(d.decoder_context, rs, keep)
        c2 == OI_CODEC_SBC_DecoderConfigureMSbc(c1, cs)
        cl == [d EXCEPT !.decode_buf = ZeroBuf]
    IN  IF ~OI_SUCCESS(rs)
        THEN [ret   |-> FALSE,
              dec   |-> [cl EXCEPT !.decoder_context = c1],
              calls |-> << [fn |-> "DecoderReset", status |-> rs] >>]
        ELSE [ret   |-> OI_SUCCESS(cs),
              dec   |-> [cl EXCEPT !.decoder_context = c2],
              calls |-> << [fn |-> "DecoderReset", status |-> rs],
                           [fn |-> "DecoderConfigureMSbc", status |-> cs] >>]

InitOutcome(d, rs, cs, keep) ==
    LET c1 == OI_CODEC_SBC_DecoderReset(d.decoder_context, rs, keep)
        c2 == OI_CODEC_SBC_DecoderConfigureMSbc(c1, cs)
    IN  IF ~OI_SUCCESS(rs)
        THEN [ret   |-> FALSE,
              dec   |-> [d EXCEPT !.decoder_context = c1],
              calls |-> << [fn |-> "DecoderReset", status |-> rs] >>]
        ELSE IF ~OI_SUCCESS(cs)
        THEN [ret   |-> FALSE,
              dec   |-> [d EXCEPT !.decoder_context = c2],
              calls |-> << [fn |-> "DecoderReset", status |-> rs],
                           [fn |-> "DecoderConfigureMSbc", status |-> cs] >>]
        ELSE [ret   |-> TRUE,
              dec   |-> [d EXCEPT !.decoder_context = c2],
              calls |-> << [fn |-> "DecoderReset", status |-> rs],
                           [fn |-> "DecoderConfigureMSbc", status |-> cs] >>]

\* line 70: oi_size = HFP_MSBC_PKT_LEN, whatever the caller's buffer holds
InputLen_FromCaller(len) == len

InputLen(len) == HFP_MSBC_PKT_LEN

\* line 71: out_avail = sizeof(hfp_msbc_decoder.decode_buf)
OutAvail == SizeofDecodeBuf

\* line 77: the call failed unless the status is a success, 240 bytes were
\* written and no input is left
DecodeOk_IgnoresRemaining(status, out_avail, oi_size) ==
    ~(~OI_SUCCESS(status) \/ out_avail # FullFrameBytes)

DecodeOk(status, out_avail, oi_size) ==
    ~(~OI_SUCCESS(status) \/ out_avail # FullFrameBytes \/ oi_size # 0)

\* lines 74-76: the context handed to the engine is the static one, as it is
EngineInput_Resets(d) == [d EXCEPT !.decoder_context.hist = 0]

EngineInput(d) == d

\* lines 77-81: on failure the decoder is left as the engine left it
AfterFailure_RollsBack(before, after) == before

AfterFailure_Cleans(before, after) == ZeroDecoder

AfterFailure(before, after) == after

\* line 83: *o_buf = (const uint8_t*)&hfp_msbc_decoder.decode_buf
ViewOnSuccess_Input(old) == "i_buf"

ViewOnSuccess(old) == "decode_buf"

\* lines 77-81: the failure path returns without writing *o_buf
ViewOnFailure_Null(old) == "NULL"

ViewOnFailure(old) == old

\* lines 63-85
DecodeOutcome(d, view, frame, len) ==
    LET in_len == InputLen(len)
        cap    == OutAvail
        e      == OI_CODEC_SBC_DecodeFrame(EngineInput(d), frame, in_len, cap)
        ok     == DecodeOk(e.status, e.out_avail, e.oi_size)
    IN  [ret   |-> ok,
         dec   |-> IF ok THEN e.dec ELSE AfterFailure(d, e.dec),
         view  |-> IF ok THEN ViewOnSuccess(view) ELSE ViewOnFailure(view),
         calls |-> << [fn |-> "DecodeFrame", status |-> e.status,
                       in_ctx |-> EngineInput(d).decoder_context,
                       out_dec |-> e.dec,
                       in_len |-> in_len, out_cap |-> cap,
                       oi_size |-> e.oi_size, out_avail |-> e.out_avail] >>]

\* What the caller's view reads.
ReadView(view, d) == IF view = "decode_buf" THEN d.decode_buf ELSE ZeroBuf

-----------------------------------------------------------------------------
(* The state machine *)

NoFrame == [status |-> "none", rem |-> 0, wr |-> 0, pay |-> 0]

Init ==
    /\ hfp_msbc_decoder = ZeroDecoder        \* line 37: static storage
    /\ o_buf = "NULL"
    /\ viewSnap = ZeroBuf
    /\ lastOp = "none"
    /\ lastResult = FALSE
    /\ calls = << >>
    /\ lastFrame = NoFrame
    /\ lastLen = 0
    /\ lifecycle = "Uninitialized"
    /\ failedBefore = FALSE
    /\ trail = "other"

hfp_msbc_decoder_init ==
    \E rs \in Statuses, cs \in Statuses, keep \in BOOLEAN :
        LET r == InitOutcome(hfp_msbc_decoder, rs, cs, keep) IN
        /\ hfp_msbc_decoder' = r.dec
        /\ lastResult' = r.ret
        /\ calls' = r.calls
        /\ lifecycle' = IF r.ret THEN "Ready" ELSE lifecycle
        /\ trail' = IF r.ret /\ trail \in {"cleanup", "cleanup_cleanup"}
                    THEN "cleanup_init" ELSE "other"
        /\ lastOp' = "init"
        /\ failedBefore' = FALSE
        /\ lastFrame' = NoFrame
        /\ lastLen' = 0
        /\ UNCHANGED <<o_buf, viewSnap>>

hfp_msbc_decoder_cleanup ==
    /\ hfp_msbc_decoder' = Memset0(hfp_msbc_decoder)
    /\ lastResult' = TRUE
    /\ calls' = << >>
    /\ lifecycle' = "Uninitialized"
    /\ trail' = IF trail \in {"cleanup", "cleanup_cleanup"}
                THEN "cleanup_cleanup" ELSE "cleanup"
    /\ lastOp' = "cleanup"
    /\ failedBefore' = FALSE
    /\ lastFrame' = NoFrame
    /\ lastLen' = 0
    /\ UNCHANGED <<o_buf, viewSnap>>

hfp_msbc_decoder_decode_packet ==
    \E frame \in Frames, len \in BufLens :
        LET r == DecodeOutcome(hfp_msbc_decoder, o_buf, frame, len) IN
        /\ hfp_msbc_decoder' = r.dec
        /\ o_buf' = r.view
        /\ viewSnap' = IF r.ret THEN ReadView(r.view, r.dec) ELSE viewSnap
        /\ lastResult' = r.ret
        /\ calls' = r.calls
        /\ lastFrame' = frame
        /\ lastLen' = len
        /\ trail' = CASE trail = "cleanup_init" -> "cleanup_init_decode"
                      [] trail = "cleanup_init_decode" -> "cleanup_init_decode_decode"
                      [] OTHER -> "other"
        /\ lastOp' = "decode"
        /\ failedBefore' = (lastOp = "decode" /\ ~lastResult)
        /\ UNCHANGED lifecycle

Next ==
    \/ hfp_msbc_decoder_init
    \/ hfp_msbc_decoder_cleanup
    \/ hfp_msbc_decoder_decode_packet

Spec == Init /\ [][Next]_vars

-----------------------------------------------------------------------------
(* Claims *)

EngineCall == calls[1]

\* C1: decode_packet returns success if and only if the engine's status is a
\* success, no input bytes remain and exactly 240 bytes were written.
C1_SuccessIffStatusRemainingWritten ==
    lastOp = "decode" =>
        (lastResult <=> (/\ OI_SUCCESS(EngineCall.status)
                         /\ EngineCall.oi_size = 0
                         /\ EngineCall.out_avail = 240))

\* The engine reported success and 240 bytes written, but input remains.
C1_Witness ==
    /\ lastOp = "decode"
    /\ ~lastResult
    /\ OI_SUCCESS(EngineCall.status)
    /\ EngineCall.out_avail = 240
    /\ EngineCall.oi_size # 0

\* C2: init calls the reset first, calls the mSBC configuration only when
\* the reset was accepted, and returns success exactly when both were.
C2_InitResetThenConfigure ==
    lastOp = "init" =>
        /\ Len(calls) \in {1, 2}
        /\ calls[1].fn = "DecoderReset"
        /\ (Len(calls) = 2) <=> OI_SUCCESS(calls[1].status)
        /\ Len(calls) = 2 => calls[2].fn = "DecoderConfigureMSbc"
        /\ lastResult <=> (/\ Len(calls) = 2
                           /\ OI_SUCCESS(calls[1].status)
                           /\ OI_SUCCESS(calls[2].status))

\* The reset was rejected: init failed and never configured.
C2_Witness ==
    /\ lastOp = "init"
    /\ ~lastResult
    /\ Len(calls) = 1
    /\ ~OI_SUCCESS(calls[1].status)

\* C3: a decode_packet made while no init has succeeded since the start or
\* the last cleanup returns failure.
C3_DecodeBeforeInitFails ==
    (lastOp = "decode" /\ lifecycle = "Uninitialized") => ~lastResult

\* C4: after cleanup the context, the scratch memory and the output buffer
\* are all zero, and a second cleanup leaves that state as it is.
C4_CleanupZeroesAll ==
    lastOp = "cleanup" =>
        /\ hfp_msbc_decoder.decoder_context = ZeroContext
        /\ hfp_msbc_decoder.context_data = 0
        /\ hfp_msbc_decoder.decode_buf = ZeroBuf
        /\ Memset0(hfp_msbc_decoder) = hfp_msbc_decoder

\* Two cleanups in a row, after a decode had succeeded.
C4_Witness ==
    /\ lastOp = "cleanup"
    /\ trail = "cleanup_cleanup"
    /\ o_buf = "decode_buf"

\* C5: an init that returns failure leaves the decoder state as it was
\* before the call.
C5_FailedInitLeavesState ==
    [][(lastOp' = "init" /\ ~lastResult') =>
           hfp_msbc_decoder' = hfp_msbc_decoder]_vars

WellFormed ==
    {f \in Frames : OI_SUCCESS(f.status) /\ f.rem = 0 /\ f.wr = FullFrameBytes}

\* The result and the PCM block of decoding frame f next, from decoder d.
Following(d, f) ==
    LET r == DecodeOutcome(d, "NULL", f, HFP_MSBC_PKT_LEN)
    IN  <<r.ret, r.dec.decode_buf>>

\* C6 as stated: after a failed decode_packet, decoding a well-formed frame
\* gives what it would have given had the failed call not been made.
C6_FailedDecodeLeavesNoTrace ==
    [][(lastOp' = "decode" /\ ~lastResult' /\ lifecycle = "Ready") =>
           \A f \in WellFormed :
               Following(hfp_msbc_decoder', f) = Following(hfp_msbc_decoder, f)]_vars

\* C6 as amended: a failed decode_packet is not rolled back; the decoder
\* state after it is exactly the state the engine left.
C6_FailedDecodeKeepsEngineState ==
    (lastOp = "decode" /\ ~lastResult) =>
        hfp_msbc_decoder = EngineCall.out_dec

\* A failed decode in a Ready decoder that moved the context.
C6_Witness ==
    /\ lastOp = "decode"
    /\ ~lastResult
    /\ lifecycle = "Ready"
    /\ hfp_msbc_decoder.decoder_context # EngineCall.in_ctx

\* The decoder after cleanup and a successful init.
FreshReady == [ZeroDecoder EXCEPT !.decoder_context = [mode |-> "msbc", hist |-> 0]]

\* C7: cleanup; init (succeeds); decode_packet(f) gives the same result and
\* the same output buffer contents whatever was done before the cleanup.
C7_Repeatable ==
    trail = "cleanup_init_decode" =>
        /\ lastResult = (lastFrame \in WellFormed)
        /\ hfp_msbc_decoder.decode_buf =
               OI_CODEC_SBC_DecodeFrame(FreshReady, lastFrame,
                                        HFP_MSBC_PKT_LEN, SizeofDecodeBuf).dec.decode_buf

\* The sequence was run after an earlier session had decoded a frame, and
\* its decode left the output buffer untouched.
C7_Witness ==
    /\ trail = "cleanup_init_decode"
    /\ ~lastResult
    /\ o_buf = "decode_buf"
    /\ lastFrame.wr = 0

\* C8: of two consecutive decode_packet calls, the second hands the engine
\* the context the engine left at the end of the first.
C8_ContextCarriedOver ==
    [][(lastOp = "decode" /\ lastOp' = "decode") =>
           calls'[1].in_ctx = calls[1].out_dec.decoder_context]_vars

\* A second decode in a row, received with the history the first one left.
C8_Witness ==
    /\ trail = "cleanup_init_decode_decode"
    /\ EngineCall.in_ctx.hist # 0

\* C9: the view a successful decode_packet returns is the decoder's own
\* output buffer, so it reads what the buffer holds now, not what it held
\* when the view was returned.
C9_ViewIsInternalBuffer ==
    /\ o_buf \in {"NULL", "decode_buf"}
    /\ (lastOp = "decode" /\ lastResult) =>
           /\ o_buf = "decode_buf"
           /\ viewSnap = hfp_msbc_decoder.decode_buf
    /\ o_buf # "NULL" =>
           ReadView(o_buf, hfp_msbc_decoder) = hfp_msbc_decoder.decode_buf

\* A later decode_packet changed what a view returned earlier reads.
C9_Witness ==
    /\ o_buf = "decode_buf"
    /\ lastOp = "decode"
    /\ ReadView(o_buf, hfp_msbc_decoder) # viewSnap

\* C10: every decode_packet calls the engine's decode once, with an input
\* length of 60 and an output capacity of 240, whatever the caller's buffer
\* holds.
C10_OneEngineCallFixedSizes ==
    lastOp = "decode" =>
        /\ Len(calls) = 1
        /\ EngineCall.fn = "DecodeFrame"
        /\ EngineCall.in_len = 60
        /\ EngineCall.out_cap = 240

\* A failed decode of a caller buffer that is not 60 bytes long.
C10_Witness ==
    /\ lastOp = "decode"
    /\ ~lastResult
    /\ lastLen # 60

\* C11: a decode_packet that returns failure ends nothing: the wrapper makes
\* no reset or configure call in it, the decode_packet that follows is
\* handed to the engine once, on a context still configured as it was, and
\* returns success when the engine reports a success status, 0 bytes
\* remaining and 240 bytes written.
C11_FailureNotFatal ==
    [][(lastOp = "decode" /\ ~lastResult /\ lastOp' = "decode") =>
           /\ Len(calls) = 1 /\ calls[1].fn = "DecodeFrame"
           /\ Len(calls') = 1 /\ calls'[1].fn = "DecodeFrame"
           /\ calls'[1].in_ctx.mode = calls[1].in_ctx.mode
           /\ lifecycle' = lifecycle
           /\ (/\ OI_SUCCESS(calls'[1].status)
               /\ calls'[1].oi_size = 0
               /\ calls'[1].out_avail = 240) => lastResult']_vars

\* A decode that succeeded in a Ready decoder right after one that failed.
C11_Witness ==
    /\ lastOp = "decode"
    /\ failedBefore
    /\ lastResult
    /\ lifecycle = "Ready"
    /\ EngineCall.in_ctx.mode = "msbc"


\* C12: a decode_packet that returns failure leaves the caller's view
\* variable as it was before the call.
C12_FailureKeepsView ==
    [][(lastOp' = "decode" /\ ~lastResult') => o_buf' = o_buf]_vars

\* A failed decode after which the caller still holds the view of an
\* earlier success, over a buffer the failed call has rewritten.
C12_Witness ==
    /\ lastOp = "decode"
    /\ ~lastResult
    /\ o_buf = "decode_buf"
    /\ hfp_msbc_decoder.decode_buf.n # FullFrameBytes

\* The output buffers a decoder can hold.
Bufs == {ZeroBuf} \cup [n : {238, 240}, v : 1 .. HistMod]

\* C13: init leaves the output buffer as it was, and neither its result nor
\* the context it leaves depends on what the output buffer holds.
C13_InitLeavesOutputBuffer ==
    [][lastOp' = "init" =>
           /\ hfp_msbc_decoder'.decode_buf = hfp_msbc_decoder.decode_buf
           /\ \A b \in Bufs, rs \in Statuses, cs \in Statuses, keep \in BOOLEAN :
                  LET r0 == InitOutcome(hfp_msbc_decoder, rs, cs, keep)
                      r1 == InitOutcome([hfp_msbc_decoder EXCEPT !.decode_buf = b],
                                        rs, cs, keep)
                  IN  /\ r1.ret = r0.ret
                      /\ r1.calls = r0.calls
                      /\ r1.dec.decoder_context = r0.dec.decoder_context
                      /\ r1.dec.context_data = r0.dec.context_data
                      /\ r1.dec.decode_buf = b]_vars

\* A successful init, made without a cleanup, that left a decoded PCM block
\* in the output buffer.
C13_Witness ==
    /\ lastOp = "init"
    /\ lastResult
    /\ hfp_msbc_decoder.decode_buf.n = FullFrameBytes
    /\ o_buf = "decode_buf"

=============================================================================
